---------------------------- MODULE Spec2Model ----------------------------
(***************************************************************************)
(* Budget Tracker: the expense service of src/main.py.                      *)
(*                                                                         *)
(* The state is the PostgreSQL table `expenses` with its id sequence        *)
(* `expenses_id_seq`, and, per HTTP client, the position of the handler     *)
(* that serves its request, the handler's local variables, the state of     *)
(* the handler's database connection and the response it produced.          *)
(*                                                                         *)
(* Every SQL statement is one atomic step under READ COMMITTED (the         *)
(* isolation psycopg2 opens connections with): a statement sees what is     *)
(* committed when it runs, plus its own session's uncommitted rows.         *)
(*                                                                         *)
(* Representation.                                                          *)
(*   text      a sequence of one-character strings: <<" ", "f">> is " f"    *)
(*   Optional  None is <<>>, a present value v is <<v>>                     *)
(*   date      <<year, month, day>>; a "YYYY-MM-DD" string is the same      *)
(*             triple, valid or not                                         *)
(*   float     request amounts are integers in thousandths (4 is 0.004)     *)
(*   DECIMAL   stored amounts and totals are integers in hundredths         *)
(* The column created_at (DEFAULT NOW()) is only echoed by the handlers     *)
(* and is left out.                                                         *)
(***************************************************************************)
EXTENDS Integers, Sequences, FiniteSets, TLC

(***************************************************************************)
(* Bounds of the model.                                                     *)
(***************************************************************************)
\* The number of ids the sequence hands out in a run.
MaxId == 3

\* The HTTP clients whose requests interleave.
Clients == {"c1", "c2"}

(***************************************************************************)
(* Program constants.                                                       *)
(***************************************************************************)
\* category VARCHAR(100)
CategoryMaxLen == 100
\* year: Query(ge=2000, le=2100); month: Query(ge=1, le=12)
YearMin == 2000
YearMax == 2100
MonthMin == 1
MonthMax == 12
\* limit: Query(200, ge=1, le=1000); offset: Query(0, ge=0)
LimitDefault == 200
LimitMin == 1
LimitMax == 1000
OffsetMin == 0

None == <<>>
Some(v) == <<v>>

(***************************************************************************)
(* Text: str.strip(), SQL lower().                                          *)
(***************************************************************************)
WhiteSpace == {" ", "\t", "\n"}

RECURSIVE LStrip(_)
LStrip(s) == IF s # <<>> /\ Head(s) \in WhiteSpace THEN LStrip(Tail(s)) ELSE s

RECURSIVE RStrip(_)
RStrip(s) ==
    IF s # <<>> /\ s[Len(s)] \in WhiteSpace
    THEN RStrip(SubSeq(s, 1, Len(s) - 1))
    ELSE s

Strip(s) == RStrip(LStrip(s))

LowerOf == ("F" :> "f") @@ ("O" :> "o") @@ ("D" :> "d")

LowerChar(ch) == IF ch \in DOMAIN LowerOf THEN LowerOf[ch] ELSE ch

Lower(s) == [i \in 1..Len(s) |-> LowerChar(s[i])]

(***************************************************************************)
(* Numbers: a float literal cast to DECIMAL(10,2), and ROUND(x, 2).         *)
(* PostgreSQL rounds numeric half away from zero.  The argument is in       *)
(* thousandths, the result in hundredths.                                   *)
(***************************************************************************)
Round2(x) == IF x >= 0 THEN (x + 5) \div 10 ELSE -((5 - x) \div 10)

\* A DECIMAL(_,2) value as the exact numeric it is, in thousandths.
Numeric(cents) == cents * 10

(***************************************************************************)
(* Dates: datetime.date, as CPython computes it.                            *)
(***************************************************************************)
IsLeap(y) == y % 4 = 0 /\ (y % 100 # 0 \/ y % 400 = 0)

DaysInMonthTable == <<31, 28, 31, 30, 31, 30, 31, 31, 30, 31, 30, 31>>

DaysInMonth(y, m) == IF m = 2 /\ IsLeap(y) THEN 29 ELSE DaysInMonthTable[m]

\* _DAYS_BEFORE_MONTH[m], for m in 1..12
RECURSIVE DaysBeforeMonthTable(_)
DaysBeforeMonthTable(m) ==
    IF m = 1 THEN 0 ELSE DaysBeforeMonthTable(m - 1) + DaysInMonthTable[m - 1]

DaysBeforeMonth(y, m) ==
    DaysBeforeMonthTable(m) + (IF m > 2 /\ IsLeap(y) THEN 1 ELSE 0)

DaysBeforeYear(y) ==
    LET p == y - 1 IN p * 365 + (p \div 4) - (p \div 100) + (p \div 400)

\* date(y, m, d).toordinal()
Ymd2Ord(y, m, d) == DaysBeforeYear(y) + DaysBeforeMonth(y, m) + d

DI400Y == DaysBeforeYear(401)
DI100Y == DaysBeforeYear(101)
DI4Y == DaysBeforeYear(5)

\* date.fromordinal(n)
Ord2Ymd(ord) ==
    LET n0 == ord - 1
        n400 == n0 \div DI400Y
        r400 == n0 % DI400Y
        n100 == r400 \div DI100Y
        r100 == r400 % DI100Y
        n4 == r100 \div DI4Y
        r4 == r100 % DI4Y
        n1 == r4 \div 365
        n == r4 % 365
        year == n400 * 400 + 1 + n100 * 100 + n4 * 4 + n1
        leapyear == n1 = 3 /\ (n4 # 24 \/ n100 = 3)
        month == (n + 50) \div 32
        preceding == DaysBeforeMonthTable(month)
                       + (IF month > 2 /\ leapyear THEN 1 ELSE 0)
        back == preceding > n
        month2 == IF back THEN month - 1 ELSE month
        preceding2 ==
            IF back
            THEN preceding - (DaysInMonthTable[month2]
                                + (IF month2 = 2 /\ leapyear THEN 1 ELSE 0))
            ELSE preceding
    IN  IF n1 = 4 \/ n100 = 4
        THEN <<year - 1, 12, 31>>
        ELSE <<year, month2, n - preceding2 + 1>>

\* datetime.strptime(s, "%Y-%m-%d") succeeds
IsValidDate(d) ==
    /\ d[1] \in 1..9999
    /\ d[2] \in 1..12
    /\ d[3] \in 1..DaysInMonth(d[1], d[2])

\* a <= b on DATE values
DateLE(a, b) ==
    \/ a[1] < b[1]
    \/ a[1] = b[1] /\ a[2] < b[2]
    \/ a[1] = b[1] /\ a[2] = b[2] /\ a[3] <= b[3]

DateLT(a, b) == DateLE(a, b) /\ a # b

(***************************************************************************)
(* SQL over the table: a row is                                             *)
(*   [id, amount, category, description, expense_date].                     *)
(***************************************************************************)
Min(a, b) == IF a <= b THEN a ELSE b

\* SELECT ... FROM expenses WHERE id = %s
SelectById(tbl, id) == {r \in tbl : r.id = id}

\* SUM(amount) over a set of rows, in hundredths; NULL over no rows
RECURSIVE SumCents(_)
SumCents(rows) ==
    IF rows = {} THEN 0
    ELSE LET r == CHOOSE x \in rows : TRUE IN r.amount + SumCents(rows \ {r})

SqlSum(rows) == IF rows = {} THEN None ELSE Some(Numeric(SumCents(rows)))

\* COALESCE(v, d)
Coalesce(v, d) == IF v = None THEN d ELSE v[1]

\* Decimal `x or 0`, then float(): a zero Decimal and None are both falsy
FloatOrZero(v) == IF v = None \/ v[1] = 0 THEN 0 ELSE v[1]

\* WHERE 1=1 [AND expense_date >= %s] [AND expense_date <= %s]
\*           [AND lower(category) = lower(%s)]
ListWhere(r, start_date, end_date, category) ==
    /\ start_date # None => DateLE(start_date[1], r.expense_date)
    /\ end_date # None => DateLE(r.expense_date, end_date[1])
    /\ (category # None /\ category[1] # <<>>)
           => Lower(r.category) = Lower(Strip(category[1]))

\* ORDER BY expense_date DESC, id: the tie-break ascending
OrderBeforeIdAsc(a, b) ==
    \/ DateLT(b.expense_date, a.expense_date)
    \/ a.expense_date = b.expense_date /\ a.id < b.id

\* ORDER BY expense_date DESC, id DESC: a comes before b
OrderBefore(a, b) ==
    \/ DateLT(b.expense_date, a.expense_date)
    \/ a.expense_date = b.expense_date /\ a.id > b.id

RECURSIVE OrderBy(_)
OrderBy(rows) ==
    IF rows = {} THEN <<>>
    ELSE LET first == CHOOSE r \in rows :
                         \A o \in rows \ {r} : OrderBefore(r, o)
         IN  <<first>> \o OrderBy(rows \ {first})

\* LIMIT %s OFFSET %s
LimitOffset(s, limit, offset) ==
    SubSeq(s, offset + 1, Min(Len(s), offset + limit))

\* The query of list_expenses.
ListQuery(tbl, start_date, end_date, category, limit, offset) ==
    LimitOffset(
        OrderBy({r \in tbl : ListWhere(r, start_date, end_date, category)}),
        limit, offset)

\* WHERE expense_date >= %s AND expense_date <= %s
InRange(tbl, start, end) ==
    {r \in tbl : DateLE(start, r.expense_date) /\ DateLE(r.expense_date, end)}

\* SELECT category, ROUND(SUM(amount), 2) AS total ... GROUP BY category
GroupRows(tbl, start, end) ==
    LET rng == InRange(tbl, start, end) IN
    { [category |-> cat,
       total |-> Some(Round2(SqlSum({r \in rng : r.category = cat})[1]))] :
      cat \in {r.category : r \in rng} }

\* ... ORDER BY total DESC: every order of the groups the sort allows
\* (the order of equal totals is the server's choice)
GroupQuery(tbl, start, end) ==
    LET G == GroupRows(tbl, start, end)
        n == Cardinality(G)
    IN  { s \in [1..n -> G] :
            /\ \A i, j \in 1..n : i # j => s[i] # s[j]
            /\ \A i, j \in 1..n : i < j => s[i].total[1] >= s[j].total[1] }

\* SELECT ROUND(COALESCE(SUM(amount), 0), 2) AS grand_total ...
GrandQuery(tbl, start, end) ==
    Some(Round2(Coalesce(SqlSum(InRange(tbl, start, end)), 0)))

\* The end of the month without the special case of December
MonthEndNoRollover(year, month) ==
    Ord2Ymd(Ymd2Ord(year, (month % 12) + 1, 1) - 1)

\* The month's date range, as get_monthly_summary computes it.
MonthStart(year, month) == <<year, month, 1>>

MonthEnd(year, month) ==
    IF month = 12
    THEN Ord2Ymd(Ymd2Ord(year + 1, 1, 1) - 1)
    ELSE Ord2Ymd(Ymd2Ord(year, month + 1, 1) - 1)

(***************************************************************************)
(* State.                                                                   *)
(***************************************************************************)
VARIABLES
    expenses,         \* the committed rows of table expenses
    expenses_id_seq,  \* last_value of the sequence behind id SERIAL
    pc,               \* per client: where its handler stands
    req,              \* per client: the request being served
    conn,             \* per client: the handler's connection
    local,            \* per client: the handler's variables and session
    resp,             \* per client: the response, once the handler ended
    issued,           \* history: the ids nextval has handed out
    returned,         \* history: the ids successful creates have returned
    deleted           \* history: the ids successful deletes have returned

vars == <<expenses, expenses_id_seq, pc, req, conn, local, resp,
          issued, returned, deleted>>

NoReq == [op |-> "none"]
NoResp == [status |-> 0]
NoLocal ==
    [expense_date |-> None,  \* add_expense: expense_date
     pending |-> {},         \* the session's uncommitted inserted rows
     lastval |-> None,       \* the session's last nextval
     expense_id |-> None,    \* add_expense: expense_id
     rowcount |-> None,      \* cur.rowcount of the last DELETE
     start |-> None,         \* get_monthly_summary: start
     end |-> None,           \* get_monthly_summary: end
     rows |-> <<>>]          \* get_monthly_summary: rows

Init ==
    /\ expenses = {}
    /\ expenses_id_seq = 0
    /\ pc = [c \in Clients |-> "idle"]
    /\ req = [c \in Clients |-> NoReq]
    /\ conn = [c \in Clients |-> "none"]
    /\ local = [c \in Clients |-> NoLocal]
    /\ resp = [c \in Clients |-> NoResp]
    /\ issued = {}
    /\ returned = {}
    /\ deleted = {}

\* The handler of client c ends with response r.
Finish(c, r) ==
    /\ pc' = [pc EXCEPT ![c] = "done"]
    /\ resp' = [resp EXCEPT ![c] = r]

\* ExpenseOut(id=row["id"], ...)
ExpenseOut(row) ==
    [id |-> row.id, amount |-> row.amount, category |-> row.category,
     description |-> row.description, expense_date |-> row.expense_date]

(***************************************************************************)
(* POST /expenses: add_expense.                                             *)
(***************************************************************************)
\* ExpenseCreate: amount gt=0, category min_length=1
ValidPayload(p) == p.amount > 0 /\ Len(p.category) >= 1

\* An id drawn as max(id) + 1 over the rows the table holds
NextvalMaxPlusOne ==
    IF expenses = {} THEN 1
    ELSE (CHOOSE i \in {r.id : r \in expenses} :
              \A r \in expenses : r.id <= i) + 1

\* nextval('expenses_id_seq')
Nextval == expenses_id_seq + 1

\* The sequence's last value, whichever session drew it
CurrvalGlobal(c) == expenses_id_seq

\* currval('expenses_id_seq'): the value this session's nextval returned
Currval(c) == local[c].lastval[1]

\* Validation, the default date, its check, and _connect().
AddExpenseBegin(c, payload, today) ==
    /\ pc[c] = "idle"
    /\ expenses_id_seq + Cardinality({d \in Clients : pc[d] = "insert"}) < MaxId
    /\ req' = [req EXCEPT ![c] = [op |-> "create", payload |-> payload]]
    /\ LET expense_date ==
               IF payload.expense_date # None THEN payload.expense_date[1]
               ELSE today
       IN  IF ~ValidPayload(payload)
           THEN /\ Finish(c, [status |-> 422])
                /\ UNCHANGED <<conn, local>>
           ELSE IF ~IsValidDate(expense_date)
           THEN /\ Finish(c, [status |-> 400])
                /\ UNCHANGED <<conn, local>>
           ELSE /\ pc' = [pc EXCEPT ![c] = "insert"]
                /\ conn' = [conn EXCEPT ![c] = "open"]
                /\ local' = [local EXCEPT ![c].expense_date = Some(expense_date)]
                /\ UNCHANGED resp
    /\ UNCHANGED <<expenses, expenses_id_seq, issued, returned, deleted>>

\* id ... PRIMARY KEY: a row with this id exists, committed or in another
\* session's open transaction
PrimaryKeyTaken(id) ==
    \/ SelectById(expenses, id) # {}
    \/ \E d \in Clients : SelectById(local[d].pending, id) # {}

\* INSERT INTO expenses (...) VALUES (...): the row stays uncommitted.  A
\* category longer than VARCHAR(100), or an id the primary key already
\* holds, makes the statement raise; the handler has no try/finally, so the
\* exception leaves with the connection open.
\* Whether the failed statement had drawn from the sequence is the server's
\* matter: both outcomes are allowed.
AddExpenseInsert(c) ==
    /\ pc[c] = "insert"
    /\ LET p == req[c].payload
           category == Strip(p.category)
           description == Strip(IF p.description = None THEN <<>>
                                ELSE p.description[1])
           id == Nextval
           row == [id |-> id,
                   amount |-> Round2(p.amount),
                   category |-> category,
                   description |-> description,
                   expense_date |-> local[c].expense_date[1]]
       IN  IF Len(category) > CategoryMaxLen \/ PrimaryKeyTaken(id)
           THEN /\ Finish(c, [status |-> 500])
                /\ \/ UNCHANGED <<expenses_id_seq, issued>>
                   \/ /\ expenses_id_seq' = id
                      /\ issued' = issued \cup {id}
                /\ UNCHANGED local
           ELSE /\ expenses_id_seq' = id
                /\ issued' = issued \cup {id}
                /\ local' = [local EXCEPT ![c].pending = {row},
                                          ![c].lastval = Some(id)]
                /\ pc' = [pc EXCEPT ![c] = "commit"]
                /\ UNCHANGED resp
    /\ UNCHANGED <<expenses, req, conn, returned, deleted>>

\* SELECT currval('expenses_id_seq'); conn.commit()
AddExpenseCommit(c) ==
    /\ pc[c] = "commit"
    /\ local' = [local EXCEPT ![c].expense_id = Some(Currval(c)),
                              ![c].pending = {}]
    /\ expenses' = expenses \cup local[c].pending
    /\ pc' = [pc EXCEPT ![c] = "reread"]
    /\ UNCHANGED <<expenses_id_seq, req, conn, resp, issued, returned, deleted>>

\* SELECT * FROM expenses WHERE id = %s; conn.close(); ExpenseOut(...).
\* With no row, row["id"] raises TypeError after the connection was closed.
AddExpenseReread(c) ==
    /\ pc[c] = "reread"
    /\ LET found == SelectById(expenses, local[c].expense_id[1]) IN
       /\ conn' = [conn EXCEPT ![c] = "closed"]
       /\ IF found = {}
          THEN /\ Finish(c, [status |-> 500])
               /\ UNCHANGED returned
          ELSE LET row == CHOOSE r \in found : TRUE IN
               /\ Finish(c, [status |-> 200, body |-> ExpenseOut(row)])
               /\ returned' = returned \cup {row.id}
    /\ UNCHANGED <<expenses, expenses_id_seq, req, local, issued, deleted>>

(***************************************************************************)
(* GET /expenses: list_expenses.                                            *)
(***************************************************************************)
\* limit: Query(200, ge=1, le=1000); offset: Query(0, ge=0)
ValidPage(limit, offset) ==
    limit >= LimitMin /\ limit <= LimitMax /\ offset >= OffsetMin

\* _validate(d, field)
ValidateDate(d) == d = None \/ IsValidDate(d[1])

ListExpenses(c, q) ==
    /\ pc[c] = "idle"
    /\ req' = [req EXCEPT ![c] = [op |-> "list"] @@ q]
    /\ IF ~ValidPage(q.limit, q.offset)
       THEN /\ Finish(c, [status |-> 422])
            /\ UNCHANGED conn
       ELSE IF ~(ValidateDate(q.start_date) /\ ValidateDate(q.end_date))
       THEN /\ Finish(c, [status |-> 400])
            /\ UNCHANGED conn
       ELSE LET rows == ListQuery(expenses, q.start_date, q.end_date,
                                  q.category, q.limit, q.offset)
            IN  /\ conn' = [conn EXCEPT ![c] = "closed"]
                /\ Finish(c, [status |-> 200,
                              body |-> [i \in 1..Len(rows) |-> ExpenseOut(rows[i])]])
    /\ UNCHANGED <<expenses, expenses_id_seq, local, issued, returned, deleted>>

(***************************************************************************)
(* GET /expenses/{expense_id}: get_expense_by_id.                           *)
(***************************************************************************)
GetExpenseById(c, expense_id) ==
    /\ pc[c] = "idle"
    /\ req' = [req EXCEPT ![c] = [op |-> "get", expense_id |-> expense_id]]
    /\ conn' = [conn EXCEPT ![c] = "closed"]
    /\ LET found == SelectById(expenses, expense_id) IN
       IF found = {}
       THEN Finish(c, [status |-> 404])
       ELSE Finish(c, [status |-> 200,
                       body |-> ExpenseOut(CHOOSE r \in found : TRUE)])
    /\ UNCHANGED <<expenses, expenses_id_seq, local, issued, returned, deleted>>

(***************************************************************************)
(* DELETE /expenses/{expense_id}: delete_expense.                           *)
(***************************************************************************)
\* _connect(); SELECT id FROM expenses WHERE id = %s; 404 when no row.
DeleteExpenseSelect(c, expense_id) ==
    /\ pc[c] = "idle"
    /\ req' = [req EXCEPT ![c] = [op |-> "delete", expense_id |-> expense_id]]
    /\ IF SelectById(expenses, expense_id) = {}
       THEN /\ conn' = [conn EXCEPT ![c] = "closed"]
            /\ Finish(c, [status |-> 404])
       ELSE /\ conn' = [conn EXCEPT ![c] = "open"]
            /\ pc' = [pc EXCEPT ![c] = "delete"]
            /\ UNCHANGED resp
    /\ UNCHANGED <<expenses, expenses_id_seq, local, issued, returned, deleted>>

\* The rows DELETE FROM expenses WHERE id = %s leaves in the table.
DeleteFrom(tbl, id) == tbl \ SelectById(tbl, id)

\* DELETE ...; conn.commit(); conn.close(); DeleteResult(...).  The handler
\* does not read cur.rowcount.
DeleteExpenseDelete(c) ==
    /\ pc[c] = "delete"
    /\ LET id == req[c].expense_id IN
       /\ expenses' = DeleteFrom(expenses, id)
       /\ local' = [local EXCEPT
                      ![c].rowcount = Some(Cardinality(SelectById(expenses, id)))]
       /\ conn' = [conn EXCEPT ![c] = "closed"]
       /\ Finish(c, [status |-> 200,
                     body |-> [status |-> "deleted", deleted_id |-> id]])
       /\ deleted' = deleted \cup {id}
    /\ UNCHANGED <<expenses_id_seq, req, issued, returned>>

(***************************************************************************)
(* GET /summary/monthly: get_monthly_summary.                               *)
(***************************************************************************)
\* year: Query(ge=2000, le=2100); month: Query(ge=1, le=12)
ValidMonth(year, month) ==
    /\ year >= YearMin /\ year <= YearMax
    /\ month >= MonthMin /\ month <= MonthMax

\* The date range, _connect(), and the per-category query.
MonthlySummaryGroups(c, year, month, currency) ==
    /\ pc[c] = "idle"
    /\ req' = [req EXCEPT ![c] = [op |-> "summary", year |-> year,
                                  month |-> month, currency |-> currency]]
    /\ IF ~ValidMonth(year, month)
       THEN /\ Finish(c, [status |-> 422])
            /\ UNCHANGED <<conn, local>>
       ELSE LET start == MonthStart(year, month)
                end == MonthEnd(year, month)
            IN  /\ conn' = [conn EXCEPT ![c] = "open"]
                /\ \E rows \in GroupQuery(expenses, start, end) :
                       local' = [local EXCEPT ![c].start = Some(start),
                                              ![c].end = Some(end),
                                              ![c].rows = rows]
                /\ pc' = [pc EXCEPT ![c] = "grand"]
                /\ UNCHANGED resp
    /\ UNCHANGED <<expenses, expenses_id_seq, issued, returned, deleted>>

\* The grand-total query, conn.close(), MonthlySummary(...).
MonthlySummaryGrand(c) ==
    /\ pc[c] = "grand"
    /\ LET grand == GrandQuery(expenses, local[c].start[1], local[c].end[1])
           rows == local[c].rows
           by_cat == [i \in 1..Len(rows) |->
                        [category |-> rows[i].category,
                         total |-> FloatOrZero(rows[i].total)]]
       IN  /\ conn' = [conn EXCEPT ![c] = "closed"]
           /\ Finish(c, [status |-> 200,
                         body |-> [year |-> req[c].year,
                                   month |-> req[c].month,
                                   currency |-> req[c].currency,
                                   grand_total |-> FloatOrZero(grand),
                                   by_category |-> by_cat]])
    /\ UNCHANGED <<expenses, expenses_id_seq, req, local, issued, returned, deleted>>

(***************************************************************************)
(* The response is sent; the client may send its next request.  The         *)
(* handler's variables, the connection object among them, go out of scope.  *)
(***************************************************************************)
Return(c) ==
    /\ pc[c] = "done"
    /\ pc' = [pc EXCEPT ![c] = "idle"]
    /\ req' = [req EXCEPT ![c] = NoReq]
    /\ conn' = [conn EXCEPT ![c] = "none"]
    /\ local' = [local EXCEPT ![c] = NoLocal]
    /\ resp' = [resp EXCEPT ![c] = NoResp]
    /\ UNCHANGED <<expenses, expenses_id_seq, issued, returned, deleted>>

(***************************************************************************)
(* Requests.                                                                *)
(***************************************************************************)
Feb29 == <<2024, 2, 29>>
Mar01 == <<2024, 3, 1>>
NotADate == <<2023, 2, 29>>

\* date.today(), read from the server clock
ClockDates == {Mar01}

food == <<"f", "o", "o", "d">>
Food == <<"F", "o", "o", "d">>
FOOD == <<"F", "O", "O", "D">>
Padded(s) == <<" ">> \o s \o <<" ">>

LongCategory == [i \in 1..(CategoryMaxLen + 1) |-> "x"]

ExpenseIds == 1..MaxId

\* Requests of the concurrent service: the data is kept to what decides
\* where the handlers interleave.
Payloads ==
    [amount : {1500},
     category : {food, Food, LongCategory},
     description : {None},
     expense_date : {Some(Feb29)}]

ListQueries ==
    [start_date : {None}, end_date : {None}, category : {None},
     limit : {LimitDefault}, offset : {0}]

SummaryMonths == {<<2024, 2>>}

Next ==
    \E c \in Clients :
        \/ \E p \in Payloads, today \in ClockDates : AddExpenseBegin(c, p, today)
        \/ AddExpenseInsert(c)
        \/ AddExpenseCommit(c)
        \/ AddExpenseReread(c)
        \/ \E q \in ListQueries : ListExpenses(c, q)
        \/ \E id \in ExpenseIds : GetExpenseById(c, id)
        \/ \E id \in ExpenseIds : DeleteExpenseSelect(c, id)
        \/ DeleteExpenseDelete(c)
        \/ \E ym \in SummaryMonths : MonthlySummaryGroups(c, ym[1], ym[2], "IDR")
        \/ MonthlySummaryGrand(c)
        \/ Return(c)

Spec == Init /\ [][Next]_vars

(***************************************************************************)
(* One client, requests over the data the validation and the queries        *)
(* tell apart.                                                              *)
(***************************************************************************)
\* Every amount with one category and date, and one amount with every
\* category and date.
DataPayloads ==
    [amount : {-1000, 0, 4, 10, 1500},
     category : {food},
     description : {Some(<<" ", "n">>)},
     expense_date : {Some(Feb29)}]
    \cup
    [amount : {1500},
     category : {<<>>, <<" ">>, food, Padded(Food)},
     description : {Some(<<" ", "n">>)},
     expense_date : {None, Some(Feb29), Some(NotADate)}]

DataQueries ==
    [start_date : {None, Some(Mar01), Some(NotADate)},
     end_date : {None, Some(Feb29)},
     category : {None, Some(<<>>), Some(<<" ">>), Some(FOOD), Some(Padded(food))},
     limit : {0, 1, LimitDefault},
     offset : {0, 1}]

NextData ==
    \/ \E p \in DataPayloads, today \in ClockDates : AddExpenseBegin("c1", p, today)
    \/ AddExpenseInsert("c1")
    \/ AddExpenseCommit("c1")
    \/ AddExpenseReread("c1")
    \/ \E q \in DataQueries : ListExpenses("c1", q)
    \/ \E id \in ExpenseIds : DeleteExpenseSelect("c1", id)
    \/ DeleteExpenseDelete("c1")
    \/ Return("c1")

SpecData == Init /\ [][NextData]_vars

(***************************************************************************)
(* The monthly summary over every year and month a request may name, on a   *)
(* store holding rows dated on both sides of month ends.  Row i has the     *)
(* amount 2^(i-1) hundredths, so a total tells which rows it covers.        *)
(***************************************************************************)
SeedDates ==
    << <<2023, 12, 31>>, <<2024, 1, 1>>, <<2024, 2, 29>>, <<2024, 3, 1>>,
       <<2024, 12, 31>>, <<2025, 1, 1>>, <<2100, 2, 28>>, <<2100, 3, 1>>,
       <<2000, 2, 29>>, <<2024, 4, 30>>, <<2024, 5, 1>> >>

SeedRows ==
    { [id |-> i, amount |-> 2 ^ (i - 1), category |-> food,
       description |-> <<>>, expense_date |-> SeedDates[i]] :
      i \in 1..Len(SeedDates) }

InitMonth ==
    /\ expenses = SeedRows
    /\ expenses_id_seq = Len(SeedDates)
    /\ pc = [c \in Clients |-> "idle"]
    /\ req = [c \in Clients |-> NoReq]
    /\ conn = [c \in Clients |-> "none"]
    /\ local = [c \in Clients |-> NoLocal]
    /\ resp = [c \in Clients |-> NoResp]
    /\ issued = 1..Len(SeedDates)
    /\ returned = 1..Len(SeedDates)
    /\ deleted = {}

NextMonth ==
    \/ \E year \in (YearMin - 1)..(YearMax + 1), month \in (MonthMin - 1)..(MonthMax + 1) :
           MonthlySummaryGroups("c1", year, month, "IDR")
    \/ MonthlySummaryGrand("c1")
    \/ Return("c1")

SpecMonth == InitMonth /\ [][NextMonth]_vars

(***************************************************************************)
(* Properties.                                                              *)
(***************************************************************************)
Ended(c, op) == pc[c] = "done" /\ req[c].op = op
Succeeded(c, op) == Ended(c, op) /\ resp[c].status = 200

\* C1: every id an INSERT draws is greater than every id drawn before it,
\* and every successful create returns the id its own INSERT drew, which no
\* earlier create has returned; rows deleted meanwhile change nothing.
IdsUniqueAndIncreasing ==
    [][\A c \in Clients :
         /\ (pc[c] = "insert" /\ pc'[c] = "commit")
                => \A i \in issued : local'[c].lastval[1] > i
         /\ (pc[c] = "reread" /\ resp'[c].status = 200)
                => /\ resp'[c].body.id \notin returned
                   /\ resp'[c].body.id = local[c].lastval[1]
                   /\ \A i \in deleted : resp'[c].body.id # i]_vars

\* C1 witness: a create returns id 3 after interleaving with another create
\* and after the row with id 1 was deleted.
IdsWitness ==
    \E c \in Clients :
        /\ Succeeded(c, "create")
        /\ resp[c].body.id = 3
        /\ 1 \in deleted
        /\ 2 \in returned

\* C2: the rows list returns are in expense_date descending order, equal
\* dates in id descending order.
ListSorted ==
    \A c \in Clients :
        Succeeded(c, "list") =>
            \A i \in 1..(Len(resp[c].body) - 1) :
                LET r1 == resp[c].body[i]
                    r2 == resp[c].body[i + 1]
                IN  \/ DateLT(r2.expense_date, r1.expense_date)
                    \/ r1.expense_date = r2.expense_date /\ r1.id > r2.id

\* C2 witness: a list of three rows, a later date first and then two rows
\* of one date.
ListSortedWitness ==
    \E c \in Clients :
        /\ Succeeded(c, "list")
        /\ Len(resp[c].body) = 3
        /\ resp[c].body[1].expense_date # resp[c].body[2].expense_date
        /\ resp[c].body[2].expense_date = resp[c].body[3].expense_date

\* The last day of a month by the calendar's rule.
CalendarLastDay(year, month) ==
    CASE month \in {1, 3, 5, 7, 8, 10, 12} -> 31
      [] month \in {4, 6, 9, 11} -> 30
      [] month = 2 ->
            IF (year % 4 = 0 /\ year % 100 # 0) \/ year % 400 = 0
            THEN 29 ELSE 28

\* The stored rows dated in the calendar month.
RowsOfMonth(year, month) ==
    {r \in expenses : r.expense_date[1] = year /\ r.expense_date[2] = month}

RECURSIVE SumTotals(_)
SumTotals(rows) ==
    IF rows = <<>> THEN 0 ELSE Head(rows).total + SumTotals(Tail(rows))

\* C3: for a year in 2000..2100 and a month in 1..12, the summary's range
\* runs from the first to the last calendar day of that month of that year,
\* and its totals cover exactly the rows dated in that month.
MonthRangeExact ==
    \A c \in Clients :
        (req[c].op = "summary" /\ pc[c] \in {"grand", "done"}
           /\ req[c].year \in YearMin..YearMax
           /\ req[c].month \in MonthMin..MonthMax) =>
            LET y == req[c].year
                m == req[c].month
            IN  /\ local[c].start = Some(<<y, m, 1>>)
                /\ local[c].end = Some(<<y, m, CalendarLastDay(y, m)>>)
                /\ SumTotals([i \in 1..Len(local[c].rows) |->
                                 [total |-> local[c].rows[i].total[1]]])
                       = SumCents(RowsOfMonth(y, m))
                /\ pc[c] = "done" =>
                       /\ resp[c].status = 200
                       /\ resp[c].body.grand_total = SumCents(RowsOfMonth(y, m))

\* C3 witness: the summary of December 2024 counts the row of 2024-12-31
\* (16) and not the row of 2025-01-01.
MonthRangeWitness ==
    \E c \in Clients :
        /\ Succeeded(c, "summary")
        /\ req[c].year = 2024 /\ req[c].month = 12
        /\ resp[c].body.grand_total = 16

\* C4: in every summary response the by_category totals add up to
\* grand_total within 0.01, whatever other clients commit meanwhile.
SummaryTotalsAgree ==
    \A c \in Clients :
        Succeeded(c, "summary") =>
            LET d == SumTotals(resp[c].body.by_category)
                       - resp[c].body.grand_total
            IN  d >= -1 /\ d <= 1

\* C5: every stored amount is greater than 0, and a create with an amount
\* of 0 or less is rejected.
StoredAmountsPositive ==
    /\ \A r \in expenses : r.amount > 0
    /\ \A c \in Clients :
           (Ended(c, "create") /\ req[c].payload.amount <= 0)
               => resp[c].status = 422

\* C6: every stored category is non-empty and has no whitespace at either
\* end, and a create whose category is empty after trimming is rejected.
StoredCategoriesTrimmedNonEmpty ==
    /\ \A r \in expenses :
           /\ r.category # <<>>
           /\ Head(r.category) \notin WhiteSpace
           /\ r.category[Len(r.category)] \notin WhiteSpace
    /\ \A c \in Clients :
           (Ended(c, "create") /\ Strip(req[c].payload.category) = <<>>)
               => resp[c].status = 422

\* The rows the filters of a list request ask for: both date bounds
\* inclusive, and a given category compared trimmed and without case.
ListExpected(q) ==
    {r \in expenses :
        /\ q.start_date # None => DateLE(q.start_date[1], r.expense_date)
        /\ q.end_date # None => DateLE(r.expense_date, q.end_date[1])
        /\ q.category # None
               => Lower(r.category) = Lower(Strip(q.category[1]))}

\* C7: with offset 0 and a limit that holds every match, list returns
\* exactly the stored rows its filters ask for.
ListReturnsExactlyMatches ==
    \A c \in Clients :
        (Succeeded(c, "list") /\ req[c].offset = 0
           /\ req[c].limit >= Cardinality(ListExpected(req[c]))) =>
            {resp[c].body[i] : i \in 1..Len(resp[c].body)}
                = {ExpenseOut(r) : r \in ListExpected(req[c])}

\* C7, for the requests whose category filter is absent or not the empty
\* string: the same statement.
ListReturnsExactlyMatchesForNonEmptyFilter ==
    \A c \in Clients :
        (Succeeded(c, "list") /\ req[c].offset = 0
           /\ req[c].category # Some(<<>>)
           /\ req[c].limit >= Cardinality(ListExpected(req[c]))) =>
            {resp[c].body[i] : i \in 1..Len(resp[c].body)}
                = {ExpenseOut(r) : r \in ListExpected(req[c])}

\* C8: a get of an id that a delete has returned success for answers 404,
\* whatever was created or deleted since.
DeletedStaysGone ==
    [][\A c \in Clients :
         (pc[c] = "idle" /\ req'[c].op = "get"
            /\ req'[c].expense_id \in deleted)
             => resp'[c].status = 404]_vars

\* C8 witness: a get of the deleted id 1 answers 404 after a later create
\* has stored a row.
DeletedStaysGoneWitness ==
    \E c \in Clients :
        /\ Ended(c, "get")
        /\ req[c].expense_id = 1
        /\ 1 \in deleted
        /\ resp[c].status = 404
        /\ 2 \in returned
        /\ expenses # {}

\* C9: a delete that returns success has itself removed the row.
DeleteSuccessRemovedRow ==
    \A c \in Clients :
        Succeeded(c, "delete") => local[c].rowcount = Some(1)

\* C10: no handler ends with its connection open.
ConnectionReleased ==
    \A c \in Clients : pc[c] = "done" => conn[c] # "open"

=============================================================================
